---- MODULE Spec2Model ----
(***************************************************************************)
(* Session / authentication core of the Showcase full-stack app.          *)
(*                                                                         *)
(* The model follows utils/session.js, utils/auth.js, utils/auth-api.js    *)
(* (handleAuthRequest), utils/db.js and db/schema.sql.  Several worker     *)
(* processes share one SQLite file (cluster mode), so every SQL statement  *)
(* is one atomic step and the statements of different workers interleave.  *)
(* Inside one worker a handler runs its statements in program order.       *)
(*                                                                         *)
(* The specifications share the variables and Init; each moves its own     *)
(* group of variables: Spec (the handlers and the maintenance calls,       *)
(* storage working), SpecStorageFailure (the handlers, any storage         *)
(* statement of which may throw), SpecPassword (hashPassword and           *)
(* verifyPassword on their own), SpecCookie (getSessionToken on its own),  *)
(* SpecSetCookie (setSessionCookie), SpecSignedToken (createSignedToken    *)
(* and verifySignedToken), SpecCluster (the cluster primary of server.js,  *)
(* with the fairness its event loop gives) and SpecServer (the request     *)
(* listener of server.js with handleApiRequest, static files and pages).   *)
(*                                                                         *)
(* Abstractions, each noted where it is used:                              *)
(*  - time is counted in milliseconds; the ISO-8601 strings produced by    *)
(*    toISOString are fixed-width and zero-padded, so SQLite's text        *)
(*    comparison orders them as the millisecond values do;                 *)
(*  - crypto.randomBytes(32) is a fresh value on every call (the n-th      *)
(*    token is the numeral string of n);                                   *)
(*  - a string that the code formats, splits or decodes is the sequence of *)
(*    its characters;                                                      *)
(*  - pbkdf2Sync is an injective function of (password, salt) into byte    *)
(*    strings of the key length;                                           *)
(*  - HMAC-SHA256 is an injective function of (secret, text) into strings  *)
(*    of the signature length; zlib's output is its input tagged with the  *)
(*    encoding;                                                            *)
(*  - a storage call that throws does so without changing the tables;      *)
(*  - the columns created_at / updated_at and sessions.id are never read   *)
(*    by the code modelled here and are left out of the rows.              *)
(***************************************************************************)
EXTENDS Integers, FiniteSets, Sequences, TLC

\* ------------------------------------------------------------------ bounds
\* at most this many user rows are ever inserted
MaxUsers == 2
\* at most this many session tokens are ever generated
MaxTokens == 2
\* the clock advances at most this many times
MaxTicks == 2
\* bytes of a salt (the program draws 16) and of a PBKDF2 digest (the program
\* asks for 64): the model keeps both byte strings short, the digest longer
\* than the salt as in the program
SaltBytes == 2
KeyLen == 3
\* Cookie headers have at most this many ';'-separated segments
MaxSegments == 3
\* signed-token payloads are null and {"u": d} for d up to this digit
MaxDigit == 3
\* characters of a signature
MacLen == 13
\* os.cpus().length
NumCPUs == 3
\* worker ids handed out by cluster.fork() stay below or at this number
MaxWorkerId == 9
\* at most this many rows are ever inserted into table items
MaxItems == 2

\* -------------------------------------------------------------- input sets
Workers == {"w1", "w2"}
Emails == {"a@b.com", "c@d.com"}
\* passwords chosen at registration, and passwords tried at login
Passwords == {"Secret123!"}
LoginPasswords == Passwords \cup {"hunter2"}
\* a missing JSON field (undefined) and the empty string are both falsy
Missing == ""

\* ------------------------------------------------------- program constants
COOKIE_NAME == "session_token"
SESSION_DURATION == 24 * 60 * 60 * 1000
\* the clock moves in steps of one session duration, so a session is seen
\* before its expiry, exactly at it, and after it
TickStep == SESSION_DURATION
MaxNow == MaxTicks * TickStep

\* SQL NULL in the last_login column
NullTime == -1
\* JavaScript undefined / null results of a lookup
Undefined == [undefined |-> TRUE]
\* no call of the password helpers yet
NoCall == [fn |-> "none"]
NoCookie == [name |-> "none"]
NoReq == [op |-> "none"]
\* the handler's locals: userId, token, user, and the error of its catch block
NoLoc == [userId |-> 0, token |-> "", user |-> Undefined, error |-> "none"]
NoOut == [req |-> NoReq, at |-> "none", loc |-> NoLoc, status |-> 0, body |-> Undefined,
          setCookie |-> NoCookie]

VARIABLES
  users,        \* rows of table users
  sessions,     \* rows of table sessions
  now,          \* Date.now(), in ms since the model's epoch
  nextUserId,   \* AUTOINCREMENT counter of users.id
  nextToken,    \* number of the next random token
  pc,           \* per worker: position inside the handler it is running
  req,          \* per worker: the request being handled
  loc,          \* per worker: the handler's local variables
  out,          \* the response written last, with its request, the handler's
                \* position when it wrote it, and the handler's locals
  issued,       \* history: token -> [user_id, at] recorded by createSession
  revoked,      \* history: tokens deleted by deleteSession / deleteAllUserSessions
  pwStored,     \* password helpers on their own: the hashes hashPassword returned,
                \* each with the password it was given
  pwCall,       \* password helpers on their own: the last call and its outcome
  fnCall,       \* cookie and signed-token helpers on their own: the last call
                \* and its outcome
  primary,      \* cluster: position of the primary process
  workers,      \* cluster: ids of the live worker processes
  nextWorkerId, \* cluster: id the next cluster.fork() gives
  exitEvents,   \* cluster: 'exit' events emitted, their listener not yet run
  signalled,    \* cluster: whether SIGTERM / SIGINT has been handled
  srvPc,        \* request listener: position in the handling of one request
  srvReq,       \* request listener: the request being handled
  srvLoc,       \* request listener: locals kept for the pending callback
  srvRes,       \* request listener: the responses written to this request
  items,        \* rows of table items
  nextItemId    \* AUTOINCREMENT counter of items.id

dbvars == <<users, sessions, now, nextUserId, nextToken, pc, req, loc, out, issued, revoked>>
pwvars == <<pwStored, pwCall>>
fnvars == <<fnCall>>
clvars == <<primary, workers, nextWorkerId, exitEvents, signalled>>
srvvars == <<srvPc, srvReq, srvLoc, srvRes, items, nextItemId>>
vars == <<dbvars, pwvars, fnvars, clvars, srvvars>>
\* the variables outside each group
nondbvars == <<pwvars, fnvars, clvars, srvvars>>
nonpwvars == <<dbvars, fnvars, clvars, srvvars>>
nonfnvars == <<dbvars, pwvars, clvars, srvvars>>
nonclvars == <<dbvars, pwvars, fnvars, srvvars>>
nonsrvvars == <<dbvars, pwvars, fnvars, clvars>>

\* the n-th value of crypto.randomBytes(32).toString('hex')
Token(n) == ToString(n)
Tokens == {Token(n) : n \in 1..MaxTokens}
IssuedTokens == DOMAIN issued

\* ------------------------------------------------------------ auth.js
HexDigits == <<"0", "1", "2", "3", "4", "5", "6", "7", "8", "9", "a", "b", "c", "d", "e", "f">>
HexDigitsUpper == <<"0", "1", "2", "3", "4", "5", "6", "7", "8", "9", "A", "B", "C", "D", "E", "F">>
\* the value of every character that is a hex digit, in either case
HexValues ==
  [c \in {HexDigits[i] : i \in 1..16} \cup {HexDigitsUpper[i] : i \in 1..16} |->
     (CHOOSE i \in 1..16 : HexDigits[i] = c \/ HexDigitsUpper[i] = c) - 1]
IsHexDigit(c) == c \in DOMAIN HexValues
HexValue(c) == HexValues[c]

\* buf.toString('hex'): two lower-case digits per byte
ToHex(bytes) ==
  [i \in 1..(2 * Len(bytes)) |->
     IF i % 2 = 1 THEN HexDigits[(bytes[(i + 1) \div 2] \div 16) + 1]
                  ELSE HexDigits[(bytes[i \div 2] % 16) + 1]]

\* Buffer.from(str, 'hex'): decodes pairs of hex digits and stops at the first
\* pair that is not one; a trailing single digit is dropped
FromHex(str) ==
  LET IsPair(j) == IsHexDigit(str[2 * j - 1]) /\ IsHexDigit(str[2 * j])
      pairs == Len(str) \div 2
      n == CHOOSE k \in 0..pairs :
             /\ \A j \in 1..k : IsPair(j)
             /\ k = pairs \/ ~IsPair(k + 1)
  IN [j \in 1..n |-> HexValue(str[2 * j - 1]) * 16 + HexValue(str[2 * j])]

\* str.split(sep), sep a single character
RECURSIVE Split(_, _)
Split(str, sep) ==
  IF \E i \in 1..Len(str) : str[i] = sep
    THEN LET i == CHOOSE k \in 1..Len(str) :
                    str[k] = sep /\ \A j \in 1..(k - 1) : str[j] # sep
         IN <<SubSeq(str, 1, i - 1)>> \o Split(SubSeq(str, i + 1, Len(str)), sep)
    ELSE <<str>>

\* the values crypto.randomBytes(16).toString('hex') takes in the model
Salts == {ToHex([i \in 1..SaltBytes |-> 90])}
HashSalts == Salts \cup {ToHex([i \in 1..SaltBytes |-> 195])}

\* crypto.pbkdf2Sync(password, salt, 100000, 64, 'sha512'): KeyLen bytes, a
\* different byte string for every (password, salt); the first byte stands
\* for the password, the next ones are the bytes the salt was printed from
PasswordList == <<"Secret123!", "hunter2">>
PasswordCode(password) == CHOOSE i \in 1..Len(PasswordList) : PasswordList[i] = password
PBKDF2(password, salt) ==
  LET saltBytes == FromHex(salt)
  IN [i \in 1..KeyLen |->
        IF i = 1 THEN PasswordCode(password)
        ELSE IF i - 1 <= Len(saltBytes) THEN saltBytes[i - 1]
        ELSE 0]

\* mutant: salt and digest are joined without the separator
HashPassword_NoSeparator(password, salt) == salt \o ToHex(PBKDF2(password, salt))

\* `${salt}:${hash}`
HashPassword(password, salt) == salt \o <<":">> \o ToHex(PBKDF2(password, salt))

\* the outcome of a call: the value returned, or the exception thrown
Returns(v) == [threw |-> "none", value |-> v]
Throws(e) == [threw |-> e]

\* crypto.timingSafeEqual(a, b): RangeError unless the byte lengths are equal
TimingSafeEqual(a, b) == IF Len(a) # Len(b) THEN Throws("RangeError") ELSE Returns(a = b)

\* const [salt, originalHash] = storedHash.split(':'); with no ':' in
\* storedHash, originalHash is undefined and Buffer.from throws a TypeError
VerifyPassword(password, storedHash) ==
  LET parts == Split(storedHash, ":")
  IN IF Len(parts) < 2
       THEN Throws("TypeError")
       ELSE TimingSafeEqual(FromHex(parts[2]), FromHex(ToHex(PBKDF2(password, parts[1]))))

\* ------------------------------------------------------------ db.js
\* the row inserted by INSERT INTO users (email, password_hash, full_name, meta)
\* with the schema's defaults for the other columns
NewUserRow(id, email, passwordHash) ==
  [id |-> id, email |-> email, password_hash |-> passwordHash,
   full_name |-> "NULL", meta |-> "{}", last_login |-> NullTime,
   is_active |-> 1, role |-> "user"]

\* mutant: the column has no UNIQUE constraint
EmailUnique_Unchecked(email) == TRUE

\* email TEXT NOT NULL UNIQUE
EmailUnique(email) == \A u \in users : u.email # email

\* SELECT * FROM users WHERE email = ?
GetUserByEmail(email) ==
  IF \E u \in users : u.email = email
    THEN CHOOSE u \in users : u.email = email
    ELSE Undefined

\* SELECT id, email, full_name, meta, created_at, last_login, is_active, role
\* FROM users WHERE id = ?
SelectedColumns == {"id", "email", "full_name", "meta", "last_login", "is_active", "role"}

GetUserById(id) ==
  IF \E u \in users : u.id = id
    THEN LET row == CHOOSE u \in users : u.id = id
         IN [f \in SelectedColumns |-> row[f]]
    ELSE Undefined

\* ------------------------------------------------------------ session.js
\* mutant: the duration is not added
ExpiresAt_NoDuration(t) == t

ExpiresAt(t) == t + SESSION_DURATION

NewSessionRow(userId, token, t) ==
  [user_id |-> userId, token |-> token, expires_at |-> ExpiresAt(t)]

\* mutant: the comparison admits a row at the instant it expires
FindSession_AtExpiry(token, t) ==
  IF \E s \in sessions : s.token = token /\ s.expires_at >= t
    THEN CHOOSE s \in sessions : s.token = token /\ s.expires_at >= t
    ELSE Undefined

\* SELECT * FROM sessions WHERE token = ? AND expires_at > ?
FindSession(token, t) ==
  IF \E s \in sessions : s.token = token /\ s.expires_at > t
    THEN CHOOSE s \in sessions : s.token = token /\ s.expires_at > t
    ELSE Undefined

\* mutant: the is_active test is left out
UserUsable_IgnoresActive(user) == user # Undefined

\* if (!user || !user.is_active) return null
UserUsable(user) == user # Undefined /\ user.is_active # 0

\* validateSession evaluated on the current state (both reads at once)
ValidateSession(token) ==
  IF token = "" THEN Undefined
  ELSE LET session == FindSession(token, now)
       IN IF session = Undefined THEN Undefined
          ELSE LET user == GetUserById(session.user_id)
               IN IF UserUsable(user) THEN user ELSE Undefined

\* mutant: a validated session is extended (sliding expiration)
SessionsAfterValidate_Sliding(token) ==
  {IF s.token = token /\ s.expires_at > now
     THEN [s EXCEPT !.expires_at = s.expires_at + SESSION_DURATION] ELSE s : s \in sessions}

\* the sessions table after validateSession(token, db), which runs SELECT
\* statements only
SessionsAfterValidate(token) == sessions

\* getCurrentUser(req, db), cookies being the parsed Cookie header
GetCurrentUser(cookies) ==
  IF COOKIE_NAME \in DOMAIN cookies THEN ValidateSession(cookies[COOKIE_NAME]) ELSE Undefined

\* mutant: the DELETE matches no row
DeleteSessionRows_KeepsRow(token) == sessions

\* DELETE FROM sessions WHERE token = ?
DeleteSessionRows(token) == {s \in sessions : s.token # token}

\* mutant: the DELETE has no WHERE clause
DeleteUserSessionRows_All(userId) == {}

\* DELETE FROM sessions WHERE user_id = ?
DeleteUserSessionRows(userId) == {s \in sessions : s.user_id # userId}

\* mutant: the sweep also deletes rows that expire within the next 24 hours
CleanupRows_Early(t) == {s \in sessions : ~(s.expires_at < t + SESSION_DURATION + 1)}

\* DELETE FROM sessions WHERE expires_at < ?
CleanupRows(t) == {s \in sessions : ~(s.expires_at < t)}

\* the Set-Cookie header written by setSessionCookie(res, token)
SetSessionCookie(token) ==
  [name |-> COOKIE_NAME, value |-> token, maxAge |-> SESSION_DURATION \div 1000,
   path |-> "/", sameSite |-> "Lax", httpOnly |-> TRUE]

\* mutant: the cookie is emptied but keeps its lifetime
ClearSessionCookie_KeepsAge ==
  [name |-> COOKIE_NAME, value |-> "", maxAge |-> SESSION_DURATION \div 1000, path |-> "/"]

\* the Set-Cookie header written by clearSessionCookie(res)
ClearSessionCookie == [name |-> COOKIE_NAME, value |-> "", maxAge |-> 0, path |-> "/"]

\* cookies[COOKIE_NAME] || null, on the parsed Cookie header
GetSessionToken(cookies) ==
  IF COOKIE_NAME \in DOMAIN cookies THEN cookies[COOKIE_NAME] ELSE ""

\* ------------------------------------------------------------ auth-api.js
\* mutant: the field is not deleted
StripPasswordHash_Keeps(user) == user

\* delete user.password_hash
StripPasswordHash(user) == [f \in DOMAIN user \ {"password_hash"} |-> user[f]]

ErrorBody(msg) == [error |-> msg]

\* mutant: an unknown email is reported as such
UnknownEmailResponse_Distinct == [status |-> 404, body |-> [error |-> "User not found"]]
\* mutant: a duplicate is reported as a conflict
EmailTakenResponse_Conflict == [status |-> 409, body |-> [error |-> "Conflict"]]

\* mutant: a missing field is reported as a server error
FieldsRequiredResponse_ServerError ==
  [status |-> 500, body |-> [error |-> "Email and password are required"]]
\* mutant: an unauthenticated request is answered with an empty 200
NotAuthenticatedResponse_Ok == [status |-> 200, body |-> [error |-> "Not authenticated"]]

InvalidRequestResponse == [status |-> 400, body |-> ErrorBody("Invalid request")]
FieldsRequiredResponse == [status |-> 400, body |-> ErrorBody("Email and password are required")]
EmailTakenResponse == [status |-> 400, body |-> ErrorBody("Email already registered")]
CreateFailedResponse == [status |-> 500, body |-> ErrorBody("Failed to create user")]
UnknownEmailResponse == [status |-> 401, body |-> ErrorBody("Invalid credentials")]
WrongPasswordResponse == [status |-> 401, body |-> ErrorBody("Invalid credentials")]
InactiveResponse == [status |-> 403, body |-> ErrorBody("Account is inactive")]
NotAuthenticatedResponse == [status |-> 401, body |-> ErrorBody("Not authenticated")]
RegisterOkResponse(user) ==
  [status |-> 200, body |-> [success |-> TRUE, user |-> StripPasswordHash(user)]]
LoginOkResponse(user) ==
  [status |-> 200, body |-> [success |-> TRUE, user |-> StripPasswordHash(user)]]
LogoutOkResponse == [status |-> 200, body |-> [success |-> TRUE]]
MeOkResponse(user) == [status |-> 200, body |-> StripPasswordHash(user)]
\* nothing is written to res: an exception left handleAuthRequest
NoResponse == [status |-> 0, body |-> Undefined]

\* res.writeHead(status, ...); res.end(body): the response goes out with the
\* Set-Cookie header set earlier by res.setHeader (cookie), and the worker is
\* free again
Respond(w, request, locals, cookie, r) ==
  /\ out' = [req |-> request, at |-> pc[w], loc |-> locals, status |-> r.status,
             body |-> r.body, setCookie |-> cookie]
  /\ pc' = [pc EXCEPT ![w] = "idle"]
  /\ req' = [req EXCEPT ![w] = NoReq]
  /\ loc' = [loc EXCEPT ![w] = NoLoc]

\* request bodies: text that is not JSON, a JSON object lacking a field, or a
\* JSON object with both fields
BodiesWith(passwords) ==
  {[json |-> FALSE, email |-> Missing, password |-> Missing]} \cup
  [json : {TRUE}, email : {Missing}, password : Passwords] \cup
  [json : {TRUE}, email : Emails, password : {Missing}] \cup
  [json : {TRUE}, email : Emails, password : passwords]
RegisterBodies == BodiesWith(Passwords)
LoginBodies == BodiesWith(LoginPasswords)

\* parsed Cookie headers: a header without the session cookie (or no header),
\* the session cookie with an empty value, the session cookie with a token
CookieMaps ==
  {[foo |-> "bar"]} \cup {[session_token |-> v] : v \in Tokens \cup {""}}

\* rows and tokens the handlers in flight may still insert
PendingUsers == Cardinality({w \in Workers : pc[w] = "reg_insert"})
PendingTokens ==
  Cardinality({w \in Workers : pc[w] \in {"reg_insert", "reg_session", "login_session"}})

\* mutant: a new session replaces the user's earlier ones
CreateSession_SingleSession(userId, token) ==
  /\ sessions' = {s \in sessions : s.user_id # userId} \cup {NewSessionRow(userId, token, now)}
  /\ nextToken' = nextToken + 1
  /\ issued' = [t \in DOMAIN issued \cup {token} |->
                  IF t = token THEN [user_id |-> userId, at |-> now] ELSE issued[t]]

\* createSession(userId, db), token being the value randomBytes returns
CreateSession(userId, token) ==
  /\ sessions' = sessions \cup {NewSessionRow(userId, token, now)}
  /\ nextToken' = nextToken + 1
  /\ issued' = [t \in DOMAIN issued \cup {token} |->
                  IF t = token THEN [user_id |-> userId, at |-> now] ELSE issued[t]]

\* ------------------------------------------------------------------ claims
UserRowOf(id) == CHOOSE u \in users : u.id = id
IsActiveUser(id) == \E u \in users : u.id = id /\ u.is_active = 1
IsInactiveUser(id) == \E u \in users : u.id = id /\ u.is_active = 0
HasRow(t) == \E s \in sessions : s.token = t

\* C1: a token that createSession issued for user u validates to u as long as
\* it has not been revoked, the clock is before issue time + 24h and u is
\* active, whatever else ran in between; a token revoked by deleteSession (or
\* deleteAllUserSessions) never validates again.
C1_CreateValidateRevoke ==
  \A t \in IssuedTokens :
    /\ (t \notin revoked /\ now < issued[t].at + 86400000 /\ IsActiveUser(issued[t].user_id))
         => (ValidateSession(t) # Undefined /\ ValidateSession(t).id = issued[t].user_id)
    /\ t \in revoked => ValidateSession(t) = Undefined

\* C1 witness: GET /api/auth/me answered 401 for a token that was revoked while
\* it was unexpired and its owner active
C1_Witness ==
  /\ out.req.op = "me" /\ out.status = 401
  /\ out.loc.token \in revoked
  /\ now < issued[out.loc.token].at + 86400000
  /\ IsActiveUser(issued[out.loc.token].user_id)

\* C2: validateSession returns a user only if a row with that token exists whose
\* expires_at is strictly later than now; a row with expires_at <= now does not
\* validate although it still exists, and (the clock never going back) it does
\* not validate after any later step either.
C2_ExpiredNeverValidates ==
  [][\A t \in Tokens :
       /\ ValidateSession(t) # Undefined
            => \E s \in sessions : s.token = t /\ s.expires_at > now
       /\ (\E s \in sessions : s.token = t /\ s.expires_at <= now)
            => (ValidateSession(t) = Undefined /\ (ValidateSession(t))' = Undefined)]_vars

\* C2 witness: GET /api/auth/me answered 401 for a token whose row still exists
\* with expires_at equal to now, owner active
C2_Witness ==
  /\ out.req.op = "me" /\ out.status = 401
  /\ \E s \in sessions : /\ s.token = out.loc.token
                         /\ s.expires_at = now
                         /\ IsActiveUser(s.user_id)

\* C3: while a user's is_active flag is 0, validateSession returns null for
\* every token issued to that user, also when its row exists and is unexpired;
\* and the user object a 200 response of GET /api/auth/me carries was active.
C3_InactiveFailsClosed ==
  /\ \A t \in IssuedTokens :
       IsInactiveUser(issued[t].user_id) => ValidateSession(t) = Undefined
  /\ \A s \in sessions :
       IsInactiveUser(s.user_id) => ValidateSession(s.token) = Undefined
  /\ (out.req.op = "me" /\ out.status = 200) => out.body.is_active = 1

\* C3 witness: GET /api/auth/me answered 401 for a token whose row exists and is
\* unexpired and whose owner is inactive
C3_Witness ==
  /\ out.req.op = "me" /\ out.status = 401
  /\ \E s \in sessions : /\ s.token = out.loc.token
                         /\ s.expires_at > now
                         /\ IsInactiveUser(s.user_id)

\* C5: no response body of register, login or GET /api/auth/me has a
\* password_hash field, at the top level or inside its user object.
C5_NoPasswordHashInBody ==
  out.req.op \in {"register", "login", "me"} =>
    /\ "password_hash" \notin DOMAIN out.body
    /\ "user" \in DOMAIN out.body => "password_hash" \notin DOMAIN out.body.user

\* C5 witness: a 200 register response carrying the user object
C5_Witness ==
  /\ out.req.op = "register" /\ out.status = 200
  /\ out.body.user.email = out.req.body.email
  /\ \E u \in users : u.email = out.req.body.email /\ "password_hash" \in DOMAIN u

\* C7: no two user rows have the same email (and no two the same id).
C7_EmailUnique ==
  \A u1, u2 \in users : (u1.email = u2.email \/ u1.id = u2.id) => u1 = u2

\* C7 witness: two register requests for one email both passed the pre-check
\* and the second INSERT was refused while the first one's row exists
C7_Witness ==
  /\ out.req.op = "register" /\ out.at = "reg_insert"
  /\ \E u \in users : u.email = out.req.body.email

Init ==
  /\ users = {}
  /\ sessions = {}
  /\ now = 0
  /\ nextUserId = 1
  /\ nextToken = 1
  /\ pc = [w \in Workers |-> "idle"]
  /\ req = [w \in Workers |-> NoReq]
  /\ loc = [w \in Workers |-> NoLoc]
  /\ out = NoOut
  /\ issued = <<>>
  /\ revoked = {}
  /\ pwStored = {}
  /\ pwCall = NoCall
  /\ fnCall = NoCall
  /\ primary = "starting"
  /\ workers = {}
  /\ nextWorkerId = 1
  /\ exitEvents = 0
  /\ signalled = FALSE
  /\ srvPc = "idle"
  /\ srvReq = NoReq
  /\ srvLoc = Undefined
  /\ srvRes = <<>>
  /\ items = {}
  /\ nextItemId = 1

RegisterRequest(body) == [op |-> "register", body |-> body]
LoginRequest(body) == [op |-> "login", body |-> body]
LogoutRequest(cookies) == [op |-> "logout", cookies |-> cookies]
MeRequest(cookies) == [op |-> "me", cookies |-> cookies]

\* POST /api/auth/register: JSON.parse, validation, getUserByEmail pre-check
RegisterBegin(w, body) ==
  /\ pc[w] = "idle"
  /\ UNCHANGED <<users, sessions, now, nextUserId, nextToken, issued, revoked, nondbvars>>
  /\ IF ~body.json
       THEN Respond(w, RegisterRequest(body), NoLoc, NoCookie, InvalidRequestResponse)
     ELSE IF body.email = Missing \/ body.password = Missing
       THEN Respond(w, RegisterRequest(body), NoLoc, NoCookie, FieldsRequiredResponse)
     ELSE IF GetUserByEmail(body.email) # Undefined
       THEN Respond(w, RegisterRequest(body), NoLoc, NoCookie, EmailTakenResponse)
     ELSE /\ nextUserId + PendingUsers <= MaxUsers
          /\ nextToken + PendingTokens <= MaxTokens
          /\ req' = [req EXCEPT ![w] = RegisterRequest(body)]
          /\ pc' = [pc EXCEPT ![w] = "reg_insert"]
          /\ UNCHANGED <<loc, out>>

\* hashPassword(password); createUser(email, passwordHash, fullName || null, {})
RegisterInsert(w, salt) ==
  /\ pc[w] = "reg_insert"
  /\ UNCHANGED <<sessions, now, nextToken, issued, revoked, nondbvars>>
  /\ LET email == req[w].body.email
         passwordHash == HashPassword(req[w].body.password, salt)
     IN IF EmailUnique(email)
          THEN /\ users' = users \cup {NewUserRow(nextUserId, email, passwordHash)}
               /\ nextUserId' = nextUserId + 1
               /\ loc' = [loc EXCEPT ![w].userId = nextUserId]
               /\ pc' = [pc EXCEPT ![w] = "reg_session"]
               /\ UNCHANGED <<req, out>>
          ELSE \* the INSERT throws, createUser logs it and returns null
               /\ Respond(w, req[w], [loc[w] EXCEPT !.error = "SQLITE_CONSTRAINT"], NoCookie,
                          CreateFailedResponse)
               /\ UNCHANGED <<users, nextUserId>>

\* createSession(userId, db); setSessionCookie(res, token); getUserByEmail(email);
\* delete user.password_hash; 200.  The INSERT and the read that follows it are
\* taken as one step, at the time of the read.
RegisterFinish(w) ==
  /\ pc[w] = "reg_session"
  /\ UNCHANGED <<users, now, nextUserId, revoked, nondbvars>>
  /\ LET token == Token(nextToken)
         user == GetUserByEmail(req[w].body.email)
     IN /\ CreateSession(loc[w].userId, token)
        /\ IF user = Undefined
             THEN \* delete on undefined throws a TypeError, caught by the handler
                  Respond(w, req[w], [loc[w] EXCEPT !.token = token, !.error = "TypeError"],
                          SetSessionCookie(token), InvalidRequestResponse)
             ELSE Respond(w, req[w], [loc[w] EXCEPT !.token = token],
                          SetSessionCookie(token), RegisterOkResponse(user))

\* mutant: the active flag is tested before the password
LoginChecks_ActiveFirst(user, password) ==
  IF user = Undefined THEN "unknown"
  ELSE IF user.is_active = 0 THEN "inactive"
  ELSE LET isValid == VerifyPassword(password, user.password_hash)
       IN IF isValid.threw # "none" THEN "threw"
          ELSE IF ~isValid.value THEN "wrong"
          ELSE "ok"

\* the checks of the login handler on the row read by getUserByEmail, in the
\* handler's order: user found, password verifies (verifyPassword may throw),
\* user active
LoginChecks(user, password) ==
  IF user = Undefined THEN "unknown"
  ELSE LET isValid == VerifyPassword(password, user.password_hash)
       IN IF isValid.threw # "none" THEN "threw"
          ELSE IF ~isValid.value THEN "wrong"
          ELSE IF user.is_active = 0 THEN "inactive"
          ELSE "ok"

\* the response to a login that fails a check; an exception of verifyPassword
\* is caught by the handler's catch block
LoginFailureResponse(checked) ==
  CASE checked = "unknown" -> UnknownEmailResponse
    [] checked = "wrong" -> WrongPasswordResponse
    [] checked = "inactive" -> InactiveResponse
    [] checked = "threw" -> InvalidRequestResponse

\* POST /api/auth/login: JSON.parse, validation, getUserByEmail, verifyPassword,
\* is_active check
LoginBegin(w, body) ==
  /\ pc[w] = "idle"
  /\ UNCHANGED <<users, sessions, now, nextUserId, nextToken, issued, revoked, nondbvars>>
  /\ IF ~body.json
       THEN Respond(w, LoginRequest(body), NoLoc, NoCookie, InvalidRequestResponse)
     ELSE IF body.email = Missing \/ body.password = Missing
       THEN Respond(w, LoginRequest(body), NoLoc, NoCookie, FieldsRequiredResponse)
     ELSE LET user == GetUserByEmail(body.email)
              checked == LoginChecks(user, body.password) IN
       IF checked # "ok"
         THEN Respond(w, LoginRequest(body),
                      [NoLoc EXCEPT !.error = IF checked = "threw" THEN "Error" ELSE "none"],
                      NoCookie, LoginFailureResponse(checked))
       ELSE /\ nextToken + PendingTokens <= MaxTokens
            /\ req' = [req EXCEPT ![w] = LoginRequest(body)]
            /\ loc' = [loc EXCEPT ![w].user = user]
            /\ pc' = [pc EXCEPT ![w] = "login_session"]
            /\ UNCHANGED out

\* UPDATE users SET last_login = CURRENT_TIMESTAMP WHERE id = ?
TouchLastLogin(userId) ==
  {IF u.id = userId THEN [u EXCEPT !.last_login = now] ELSE u : u \in users}

\* createSession(user.id, db); setSessionCookie(res, token);
\* updateLastLogin(user.id); delete user.password_hash; 200.  The two writes
\* are taken as one step; the response carries the row read by LoginBegin.
LoginFinish(w) ==
  /\ pc[w] = "login_session"
  /\ UNCHANGED <<now, nextUserId, revoked, nondbvars>>
  /\ LET token == Token(nextToken)
     IN /\ CreateSession(loc[w].user.id, token)
        /\ users' = TouchLastLogin(loc[w].user.id)
        /\ Respond(w, req[w], [loc[w] EXCEPT !.token = token],
                   SetSessionCookie(token), LoginOkResponse(loc[w].user))

\* POST /api/auth/logout
Logout(w, cookies) ==
  /\ pc[w] = "idle"
  /\ LET token == GetSessionToken(cookies) IN
       /\ IF token # ""
            THEN /\ sessions' = DeleteSessionRows(token)
                 /\ revoked' = revoked \cup ({token} \cap IssuedTokens)
            ELSE UNCHANGED <<sessions, revoked>>
       /\ Respond(w, LogoutRequest(cookies), [NoLoc EXCEPT !.token = token],
                  ClearSessionCookie, LogoutOkResponse)
  /\ UNCHANGED <<users, now, nextUserId, nextToken, issued, nondbvars>>

\* GET /api/auth/me: getSessionToken and validateSession (its two reads run
\* back to back inside one synchronous call and are taken as one step)
Me(w, cookies) ==
  /\ pc[w] = "idle"
  /\ UNCHANGED <<users, now, nextUserId, nextToken, issued, revoked, nondbvars>>
  /\ LET token == GetSessionToken(cookies)
         user == IF token # "" THEN ValidateSession(token) ELSE Undefined
     IN /\ sessions' = IF token # "" THEN SessionsAfterValidate(token) ELSE sessions
        /\ IF user = Undefined
             THEN Respond(w, MeRequest(cookies), [NoLoc EXCEPT !.token = token], NoCookie,
                          NotAuthenticatedResponse)
             ELSE Respond(w, MeRequest(cookies), [NoLoc EXCEPT !.token = token, !.user = user],
                          NoCookie, MeOkResponse(user))

\* ---- storage failures: a statement throws instead of running
\* register: createSession throws, the handler's catch block answers
RegisterSessionFails(w) ==
  /\ pc[w] = "reg_session"
  /\ Respond(w, req[w], [loc[w] EXCEPT !.error = "SqliteError"], NoCookie,
             InvalidRequestResponse)
  /\ UNCHANGED <<users, sessions, now, nextUserId, nextToken, issued, revoked, nondbvars>>

\* login: createSession throws, the handler's catch block answers
LoginSessionFails(w) ==
  /\ pc[w] = "login_session"
  /\ Respond(w, req[w], [loc[w] EXCEPT !.error = "SqliteError"], NoCookie,
             InvalidRequestResponse)
  /\ UNCHANGED <<users, sessions, now, nextUserId, nextToken, issued, revoked, nondbvars>>

\* logout: deleteSession throws; the handler has no try block and neither has
\* its caller, so the exception leaves handleAuthRequest before clearSessionCookie
LogoutFails(w, cookies) ==
  /\ pc[w] = "idle"
  /\ GetSessionToken(cookies) # ""
  /\ Respond(w, LogoutRequest(cookies),
             [NoLoc EXCEPT !.token = GetSessionToken(cookies), !.error = "SqliteError"],
             NoCookie, NoResponse)
  /\ UNCHANGED <<users, sessions, now, nextUserId, nextToken, issued, revoked, nondbvars>>

\* me: the SELECT of validateSession throws; no try block here either
MeFails(w, cookies) ==
  /\ pc[w] = "idle"
  /\ GetSessionToken(cookies) # ""
  /\ Respond(w, MeRequest(cookies),
             [NoLoc EXCEPT !.token = GetSessionToken(cookies), !.error = "SqliteError"],
             NoCookie, NoResponse)
  /\ UNCHANGED <<users, sessions, now, nextUserId, nextToken, issued, revoked, nondbvars>>

\* mutant: deactivating a user deletes the user's session rows
UpdateUser_DropsSessions(id, data) ==
  /\ users' = {IF u.id = id THEN [u EXCEPT !.is_active = data.is_active] ELSE u : u \in users}
  /\ users' # users
  /\ sessions' = IF data.is_active = 0 THEN {s \in sessions : s.user_id # id} ELSE sessions
  /\ UNCHANGED <<now, nextUserId, nextToken, pc, req, loc, out, issued, revoked, nondbvars>>

\* updateUser(id, {is_active}): UPDATE users SET is_active = ? WHERE id = ?
UpdateUser(id, data) ==
  /\ users' = {IF u.id = id THEN [u EXCEPT !.is_active = data.is_active] ELSE u : u \in users}
  /\ users' # users
  /\ UNCHANGED <<sessions, now, nextUserId, nextToken, pc, req, loc, out, issued, revoked, nondbvars>>

\* deleteAllUserSessions(userId, db)
DeleteAllUserSessions(userId) ==
  /\ sessions' = DeleteUserSessionRows(userId)
  /\ sessions' # sessions
  /\ revoked' = revoked \cup {s.token : s \in {x \in sessions : x.user_id = userId}}
  /\ UNCHANGED <<users, now, nextUserId, nextToken, pc, req, loc, out, issued, nondbvars>>

\* cleanupExpiredSessions(db)
CleanupExpiredSessions ==
  /\ sessions' = CleanupRows(now)
  /\ sessions' # sessions
  /\ UNCHANGED <<users, now, nextUserId, nextToken, pc, req, loc, out, issued, revoked, nondbvars>>

\* the wall clock advances
Tick ==
  /\ now < MaxNow
  /\ now' = now + TickStep
  /\ UNCHANGED <<users, sessions, nextUserId, nextToken, pc, req, loc, out, issued, revoked, nondbvars>>

\* ---- the password helpers on their own
\* hashPassword(password), salt being the value randomBytes returns
HashPasswordCall(password, salt) ==
  /\ pwStored' = pwStored \cup
       {[password |-> password, salt |-> salt, hash |-> HashPassword(password, salt)]}
  /\ pwCall' = [fn |-> "hashPassword", password |-> password,
                result |-> Returns(HashPassword(password, salt))]
  /\ UNCHANGED nonpwvars

\* stored strings that are not of the form salt:digest, made from one that is
Malformed(storedHash) ==
  LET parts == Split(storedHash, ":")
      salt == parts[1]
      digest == IF Len(parts) < 2 THEN <<>> ELSE parts[2]
  IN {salt \o digest,
      salt \o <<":">> \o [i \in 1..Len(digest) |-> "z"],
      salt \o <<":">> \o SubSeq(digest, 1, Len(digest) - 2)}
StoredHashes == {r.hash : r \in pwStored} \cup UNION {Malformed(r.hash) : r \in pwStored}

\* verifyPassword(password, storedHash)
VerifyPasswordCall(password, storedHash) ==
  /\ pwCall' = [fn |-> "verifyPassword", password |-> password, storedHash |-> storedHash,
                result |-> VerifyPassword(password, storedHash)]
  /\ UNCHANGED pwStored
  /\ UNCHANGED nonpwvars

\* the login handler's checks on a row whose password_hash is storedHash
LoginRowCall(password, storedHash) ==
  /\ LET user == NewUserRow(1, "a@b.com", storedHash)
         checked == LoginChecks(user, password)
     IN pwCall' = [fn |-> "login", password |-> password, storedHash |-> storedHash,
                   result |-> IF checked = "ok" THEN LoginOkResponse(user)
                              ELSE LoginFailureResponse(checked)]
  /\ UNCHANGED pwStored
  /\ UNCHANGED nonpwvars

PasswordNext ==
  \/ \E password \in LoginPasswords, salt \in HashSalts : HashPasswordCall(password, salt)
  \/ \E password \in LoginPasswords, storedHash \in StoredHashes :
       VerifyPasswordCall(password, storedHash)
  \/ \E password \in LoginPasswords, storedHash \in StoredHashes :
       LoginRowCall(password, storedHash)

\* ---- the cookie helpers of session.js on their own
\* COOKIE_NAME as characters
CookieNameChars == <<"s", "e", "s", "s", "i", "o", "n", "_", "t", "o", "k", "e", "n">>

\* null, and a string value (a header, a cookie value)
Null == [null |-> TRUE]
Str(chars) == [str |-> chars]

\* String.prototype.trim
Trim(str) ==
  LET kept == {i \in 1..Len(str) : str[i] \notin {" ", "\t"}}
  IN IF kept = {} THEN <<>>
     ELSE SubSeq(str, CHOOSE i \in kept : \A j \in kept : i <= j,
                      CHOOSE i \in kept : \A j \in kept : i >= j)

\* Array.prototype.join(sep)
RECURSIVE Join(_, _)
Join(parts, sep) ==
  IF Len(parts) = 0 THEN <<>>
  ELSE IF Len(parts) = 1 THEN parts[1]
  ELSE parts[1] \o <<sep>> \o Join(Tail(parts), sep)

\* mutant: the value is the text between the first and the second '='
CookieValue_SecondPart(cookie) ==
  LET parts == Split(cookie, "=")
  IN IF Len(parts) < 2 THEN <<>> ELSE Trim(parts[2])

\* const [name, ...rest] = cookie.split('='); name.trim(), rest.join('=').trim()
CookieName(cookie) == Trim(Split(cookie, "=")[1])
CookieValue(cookie) == Trim(Join(Tail(Split(cookie, "=")), "="))

\* parseCookies(cookieHeader): the object the forEach loop fills, a later
\* segment overwriting an earlier one of the same name; an absent or empty
\* header gives {}
ParseCookies(cookieHeader) ==
  IF cookieHeader = Undefined \/ cookieHeader = Str(<<>>) THEN <<>>
  ELSE LET segs == Split(cookieHeader.str, ";")
           last(name) == CHOOSE i \in 1..Len(segs) :
                           /\ CookieName(segs[i]) = name
                           /\ \A j \in 1..Len(segs) : CookieName(segs[j]) = name => j <= i
       IN [name \in {CookieName(segs[i]) : i \in 1..Len(segs)} |-> CookieValue(segs[last(name)])]

\* getSessionToken(req): cookies[COOKIE_NAME] || null on the header as received
GetSessionTokenOfHeader(cookieHeader) ==
  LET cookies == ParseCookies(cookieHeader)
  IN IF CookieNameChars \in DOMAIN cookies /\ cookies[CookieNameChars] # <<>>
       THEN Str(cookies[CookieNameChars])
       ELSE Null

\* segments of Cookie headers: the session cookie, the same with white space
\* around name and value, with an empty value, without '=', with '=' inside
\* the value; another cookie; an empty segment; a segment with an empty name;
\* a cookie whose name only starts with COOKIE_NAME
CookieSegments ==
  {CookieNameChars \o <<"=", "a", "1">>,
   <<" ">> \o CookieNameChars \o <<" ", "=", " ", "b", "2", " ">>,
   CookieNameChars \o <<"=">>,
   CookieNameChars,
   CookieNameChars \o <<"=", "a", "=", "b">>,
   <<"f", "=", "b">>,
   <<>>,
   <<"=", "x">>,
   CookieNameChars \o <<"2", "=", "x">>}

\* req.headers.cookie: absent, or up to MaxSegments segments joined by ';'
CookieHeaders ==
  {Undefined} \cup
  {Str(Join(segs, ";")) : segs \in UNION {[1..n -> CookieSegments] : n \in 1..MaxSegments}}

\* the options argument of setSessionCookie: any subset of the five fields
CookieOptions ==
  {[f \in given |-> full[f]] :
     full \in [maxAge : {3600}, httpOnly : BOOLEAN, secure : BOOLEAN,
               sameSite : {"Strict"}, path : {"/api"}],
     given \in SUBSET {"maxAge", "httpOnly", "secure", "sameSite", "path"}}

\* a destructured option with its default
Option(options, field, default) ==
  IF field \in DOMAIN options THEN options[field] ELSE default

\* setSessionCookie(res, token, options): the Set-Cookie header as the
\* sequence of its ';'-separated parts, nodeEnv being process.env.NODE_ENV
SetCookieHeader(token, options, nodeEnv) ==
  <<[n |-> COOKIE_NAME, v |-> token],
    [n |-> "Max-Age", v |-> Option(options, "maxAge", SESSION_DURATION \div 1000)],
    [n |-> "Path", v |-> Option(options, "path", "/")],
    [n |-> "SameSite", v |-> Option(options, "sameSite", "Lax")]>>
  \o (IF Option(options, "httpOnly", TRUE) THEN <<[n |-> "HttpOnly"]>> ELSE <<>>)
  \o (IF Option(options, "secure", nodeEnv = "production") THEN <<[n |-> "Secure"]>> ELSE <<>>)

\* getSessionToken(req), called once on a request whose Cookie header is
\* cookieHeader
GetSessionTokenCall(cookieHeader) ==
  /\ fnCall = NoCall
  /\ fnCall' = [fn |-> "getSessionToken", cookie |-> cookieHeader,
                result |-> Returns(GetSessionTokenOfHeader(cookieHeader))]
  /\ UNCHANGED nonfnvars

\* setSessionCookie(res, token, options)
SetSessionCookieCall(token, options, nodeEnv) ==
  /\ fnCall' = [fn |-> "setSessionCookie", token |-> token, options |-> options,
                nodeEnv |-> nodeEnv, result |-> SetCookieHeader(token, options, nodeEnv)]
  /\ UNCHANGED nonfnvars

CookieNext ==
  \E cookieHeader \in CookieHeaders : GetSessionTokenCall(cookieHeader)

SetCookieNext ==
  \E token \in Tokens, options \in CookieOptions, nodeEnv \in {"production", "development"} :
    SetSessionCookieCall(token, options, nodeEnv)

\* ---- the signed tokens of session.js on their own
\* the base64url alphabet
Base64UrlAlphabet ==
  <<"A", "B", "C", "D", "E", "F", "G", "H", "I", "J", "K", "L", "M", "N", "O", "P",
    "Q", "R", "S", "T", "U", "V", "W", "X", "Y", "Z", "a", "b", "c", "d", "e", "f",
    "g", "h", "i", "j", "k", "l", "m", "n", "o", "p", "q", "r", "s", "t", "u", "v",
    "w", "x", "y", "z", "0", "1", "2", "3", "4", "5", "6", "7", "8", "9", "-", "_">>
Base64UrlValues ==
  [c \in {Base64UrlAlphabet[i] : i \in 1..64} |->
     (CHOOSE i \in 1..64 : Base64UrlAlphabet[i] = c) - 1]

\* Buffer.from(data).toString('base64url'): six bits per character, the last
\* group filled with zero bits, no padding
Base64UrlEncode(bytes) ==
  [k \in 1..((8 * Len(bytes) + 5) \div 6) |->
     LET i == (6 * (k - 1)) \div 8 + 1
         o == (6 * (k - 1)) % 8
         w == bytes[i] * 256 + (IF i < Len(bytes) THEN bytes[i + 1] ELSE 0)
     IN Base64UrlAlphabet[((w \div 2^(10 - o)) % 64) + 1]]

\* Buffer.from(encoded, 'base64url'), on characters of the alphabet: the whole
\* bytes the characters hold
Base64UrlDecode(chars) ==
  [j \in 1..((6 * Len(chars)) \div 8) |->
     LET i == (8 * (j - 1)) \div 6 + 1
         o == (8 * (j - 1)) % 6
         w == Base64UrlValues[chars[i]] * 64 + Base64UrlValues[chars[i + 1]]
     IN (w \div 2^(4 - o)) % 256]

\* payloads: null and the objects {"u": d}, d a digit
Payloads == {Null} \cup {[u |-> d] : d \in 0..MaxDigit}

\* JSON.stringify(payload) as bytes: null, or {"u":d}
JSONStringify(payload) ==
  IF payload = Null THEN <<110, 117, 108, 108>>
  ELSE <<123, 34, 117, 34, 58, 48 + payload.u, 125>>

\* JSON.parse(text), which throws a SyntaxError on any other text
JSONParse(bytes) ==
  IF bytes = <<110, 117, 108, 108>> THEN Returns(Null)
  ELSE IF /\ Len(bytes) = 7
          /\ SubSeq(bytes, 1, 5) = <<123, 34, 117, 34, 58>>
          /\ bytes[6] \in 48..57
          /\ bytes[7] = 125
    THEN Returns([u |-> bytes[6] - 48])
  ELSE Throws("SyntaxError")

Secrets == <<"secret-1", "secret-2">>

\* crypto.createHmac('sha256', secret).update(encoded).digest('base64url'): an
\* injective function of (secret, encoded) into strings of MacLen characters
HMAC(secret, encoded) ==
  [i \in 1..MacLen |->
     IF i = 1 THEN Base64UrlAlphabet[CHOOSE k \in 1..Len(Secrets) : Secrets[k] = secret]
     ELSE IF i = 2 THEN Base64UrlAlphabet[Len(encoded) + 1]
     ELSE IF i - 2 <= Len(encoded) THEN encoded[i - 2]
     ELSE "A"]

\* createSignedToken(payload, secret)
CreateSignedToken(payload, secret) ==
  LET encoded == Base64UrlEncode(JSONStringify(payload))
  IN encoded \o <<".">> \o HMAC(secret, encoded)

\* verifySignedToken(token, secret): every exception is caught and gives null
\* (Buffer.from(undefined) when the token has no '.', timingSafeEqual on
\* different lengths, JSON.parse)
VerifySignedToken(token, secret) ==
  LET parts == Split(token, ".")
      encoded == parts[1]
  IN IF Len(parts) < 2 THEN Returns(Null)
     ELSE LET equal == TimingSafeEqual(parts[2], HMAC(secret, encoded))
          IN IF equal.threw # "none" THEN Returns(Null)
             ELSE IF ~equal.value THEN Returns(Null)
             ELSE LET payload == JSONParse(Base64UrlDecode(encoded))
                  IN IF payload.threw # "none" THEN Returns(Null) ELSE payload

\* another character of the alphabet
OtherChar(c) == IF c = "A" THEN "B" ELSE "A"

\* a token made from a signed one: as it is; a character of the encoded
\* payload changed; a character of the signature changed; the signature cut
\* short; the '.' taken out; text appended to the signature after a second '.'
Alterations ==
  {"none", "payload", "signature", "signatureCut", "noSeparator", "signatureSuffix"}
Alter(token, how) ==
  CASE how = "none" -> token
    [] how = "payload" -> <<OtherChar(token[1])>> \o Tail(token)
    [] how = "signature" ->
         SubSeq(token, 1, Len(token) - 1) \o <<OtherChar(token[Len(token)])>>
    [] how = "signatureCut" -> SubSeq(token, 1, Len(token) - 1)
    [] how = "noSeparator" -> SelectSeq(token, LAMBDA c : c # ".")
    [] how = "signatureSuffix" -> token \o <<".", "x">>

\* createSignedToken(payload, secret)
CreateSignedTokenCall(payload, secret) ==
  /\ fnCall' = [fn |-> "createSignedToken", payload |-> payload, secret |-> secret,
                result |-> Returns(CreateSignedToken(payload, secret))]
  /\ UNCHANGED nonfnvars

\* verifySignedToken(token, secret), token made from
\* createSignedToken(payload, signedWith)
VerifySignedTokenCall(payload, signedWith, how, secret) ==
  /\ LET token == Alter(CreateSignedToken(payload, signedWith), how)
     IN fnCall' = [fn |-> "verifySignedToken", token |-> token, secret |-> secret,
                   payload |-> payload, signedWith |-> signedWith, how |-> how,
                   result |-> VerifySignedToken(token, secret)]
  /\ UNCHANGED nonfnvars

SignedTokenNext ==
  \/ \E payload \in Payloads, i \in 1..Len(Secrets) : CreateSignedTokenCall(payload, Secrets[i])
  \/ \E payload \in Payloads, i, j \in 1..Len(Secrets), how \in Alterations :
       VerifySignedTokenCall(payload, Secrets[i], how, Secrets[j])

\* ---- the cluster primary of server.js (setupCluster of auth.js is the same
\* without the signal handlers)
\* the primary's script: for (i < numCPUs) cluster.fork(), then the listeners
\* are registered
StartPrimary ==
  /\ primary = "starting"
  /\ workers' = nextWorkerId..(nextWorkerId + NumCPUs - 1)
  /\ nextWorkerId' = nextWorkerId + NumCPUs
  /\ primary' = "running"
  /\ UNCHANGED <<exitEvents, signalled, nonclvars>>

\* a worker process ends (crash, or a signal sent to it); the primary's cluster
\* module emits 'exit'.  MaxWorkerId caps the ids, leaving room for the
\* replacement of every worker that has ended.
WorkerExits(w) ==
  /\ primary = "running"
  /\ w \in workers
  /\ nextWorkerId + exitEvents <= MaxWorkerId
  /\ workers' = workers \ {w}
  /\ exitEvents' = exitEvents + 1
  /\ UNCHANGED <<primary, nextWorkerId, signalled, nonclvars>>

\* mutant: the 'exit' listener only logs
OnExit_LogsOnly ==
  /\ primary = "running"
  /\ exitEvents > 0
  /\ exitEvents' = exitEvents - 1
  /\ UNCHANGED <<primary, workers, nextWorkerId, signalled, nonclvars>>

\* cluster.on('exit', ...): cluster.fork()
OnExit ==
  /\ primary = "running"
  /\ exitEvents > 0
  /\ exitEvents' = exitEvents - 1
  /\ workers' = workers \cup {nextWorkerId}
  /\ nextWorkerId' = nextWorkerId + 1
  /\ UNCHANGED <<primary, signalled, nonclvars>>

\* process.on('SIGTERM' / 'SIGINT'): shutdown kills every worker of
\* cluster.workers (each ends, and its 'exit' is emitted) and arms the 10 s timer
Shutdown ==
  /\ primary = "running"
  /\ workers # {}
  /\ nextWorkerId + exitEvents + Cardinality(workers) - 1 <= MaxWorkerId
  /\ workers' = {}
  /\ exitEvents' = exitEvents + Cardinality(workers)
  /\ signalled' = TRUE
  /\ UNCHANGED <<primary, nextWorkerId, nonclvars>>

\* the timer of shutdown fires: process.exit(1); listeners not yet run are lost
ForcedExit ==
  /\ primary = "running"
  /\ signalled
  /\ primary' = "exited"
  /\ exitEvents' = 0
  /\ UNCHANGED <<workers, nextWorkerId, signalled, nonclvars>>

ClusterNext ==
  \/ StartPrimary
  \/ \E w \in 1..MaxWorkerId : WorkerExits(w)
  \/ OnExit
  \/ Shutdown
  \/ ForcedExit

\* ---- the request listener of server.js with handleApiRequest (api.js); the
\* routes of handleAuthRequest are the subject of the specifications above and
\* are not requested here.  One request is followed from the listener to the
\* last of its callbacks; the CORS headers, set on every response, are left out.
Methods == {"GET", "POST", "PUT", "DELETE", "OPTIONS", "PATCH", "HEAD"}

\* files below public/ and components/ that exist, with path.extname
Files == [p \in {"/css/app.css", "/components/logo.png"} |->
            IF p = "/css/app.css" THEN ".css" ELSE ".png"]
\* paths starting with /css/, /js/ or /components/
StaticPaths == DOMAIN Files \cup {"/js/missing.js"}
\* paths getRoute finds a route for
RoutePaths == {"/", "/about"}
Paths == {"/api/items", "/nope"} \cup StaticPaths \cup RoutePaths

\* values of the Accept-Encoding header, '' when it is absent
AcceptEncodings ==
  {<<>>, <<"g", "z", "i", "p">>, <<"b", "r">>, <<"g", "z", "i", "p", ",", " ", "b", "r">>,
   <<"d", "e", "f", "l", "a", "t", "e">>}

\* String.prototype.includes
Includes(str, sub) ==
  \E i \in 1..(Len(str) - Len(sub) + 1) : SubSeq(str, i, i + Len(sub) - 1) = sub

\* the encoding both serveStaticFile and the page renderer choose
ChosenEncoding(acceptEncoding) ==
  IF Includes(acceptEncoding, <<"b", "r">>) THEN "br"
  ELSE IF Includes(acceptEncoding, <<"g", "z", "i", "p">>) THEN "gzip"
  ELSE "identity"

\* a body as it is, and the output of zlib.brotliCompress / zlib.gzip
Plain(content) == [of |-> content, encoding |-> "identity"]
Compressed(encoding, data) == [of |-> data.of, encoding |-> encoding]

MIME_TYPES == [ext \in {".css", ".png"} |-> IF ext = ".css" THEN "text/css" ELSE "image/png"]

\* headers of serveStaticFile before the compression is decided
StaticHeaders(ext) ==
  IF ext \in {".js", ".mjs", ".css"}
    THEN ("Content-Type" :> MIME_TYPES[ext]) @@
         ("Cache-Control" :> "public, max-age=31536000, immutable")
    ELSE ("Content-Type" :> MIME_TYPES[ext])

\* res.writeHead(status, headers); res.end(body)
Write(status, headers, body) ==
  srvRes' = Append(srvRes, [status |-> status, headers |-> headers, body |-> body])
JsonHeaders == ("Content-Type" :> "application/json")

\* request bodies of /api/items: not JSON, JSON without a title, JSON with one
ItemBodies == {[json |-> FALSE], [json |-> TRUE, title |-> Missing], [json |-> TRUE, title |-> "t"]}

\* the listener up to its return: OPTIONS, handleApiRequest, static files,
\* routes, 404.  id is parseInt(url.searchParams.get('id')), 0 standing for
\* every falsy value (no id, NaN, 0)
Listener(method, path, acceptEncoding, id) ==
  /\ srvPc \in {"idle", "done"}
  /\ srvReq' = [op |-> "http", method |-> method, path |-> path,
                acceptEncoding |-> acceptEncoding, id |-> id]
  /\ UNCHANGED <<nextItemId, nonsrvvars>>
  /\ LET Answer(status, headers, body) ==
           /\ srvRes' = <<[status |-> status, headers |-> headers, body |-> body]>>
           /\ srvPc' = "done"
           /\ srvLoc' = Undefined
         Wait(at, locals) ==
           /\ srvRes' = <<>>
           /\ srvPc' = at
           /\ srvLoc' = locals
     IN IF method = "OPTIONS"
          THEN Answer(200, <<>>, Plain("")) /\ UNCHANGED items
        ELSE IF path = "/api/items"
          THEN CASE method = "GET" ->
                      Answer(200, JsonHeaders, Plain(items)) /\ UNCHANGED items
                 [] method \in {"POST", "PUT"} /\ (method = "POST" \/ id # 0) ->
                      Wait("body", Undefined) /\ UNCHANGED items
                 [] method = "DELETE" /\ id # 0 ->
                      /\ items' = items \ {id}
                      /\ Answer(200, JsonHeaders, Plain([success |-> TRUE]))
                 [] method \in {"PUT", "DELETE"} /\ id = 0 ->
                      Answer(400, JsonHeaders, Plain([error |-> "ID required"]))
                        /\ UNCHANGED items
                 [] OTHER ->
                      \* no branch for the method: nothing is written, and
                      \* return true ends the listener
                      /\ srvRes' = <<>>
                      /\ srvPc' = "done"
                      /\ srvLoc' = Undefined
                      /\ UNCHANGED items
        ELSE IF path \in StaticPaths
          THEN Wait("readFile", Undefined) /\ UNCHANGED items
        ELSE IF method = "GET" /\ path \in RoutePaths
          THEN LET encoding == ChosenEncoding(acceptEncoding)
                   headers == ("Content-Type" :> "text/html")
               IN /\ UNCHANGED items
                  /\ IF encoding = "identity"
                       THEN Answer(200, headers, Plain(path))
                       ELSE Wait("compress",
                                 [by |-> "page", data |-> Plain(path), encoding |-> encoding,
                                  headers |-> ("Content-Encoding" :> encoding) @@ headers])
        ELSE Answer(404, ("Content-Type" :> "text/html"), Plain("404")) /\ UNCHANGED items

\* req.on('end') of POST and PUT /api/items: JSON.parse, createItem / updateItem
\* (a missing title violates NOT NULL: createItem returns null, updateItem
\* false when it has a row to update)
BodyEnd(body) ==
  /\ srvPc = "body"
  /\ srvPc' = "done"
  /\ UNCHANGED <<srvReq, srvLoc, nonsrvvars>>
  /\ IF ~body.json
       THEN Write(400, JsonHeaders, Plain([error |-> "Invalid JSON"]))
              /\ UNCHANGED <<items, nextItemId>>
     ELSE IF srvReq.method = "POST"
       THEN IF body.title = Missing
              THEN Write(500, JsonHeaders, Plain([error |-> "Failed to create item"]))
                     /\ UNCHANGED <<items, nextItemId>>
              ELSE /\ nextItemId <= MaxItems
                   /\ items' = items \cup {nextItemId}
                   /\ nextItemId' = nextItemId + 1
                   /\ Write(200, JsonHeaders, Plain([id |-> nextItemId]))
     ELSE /\ UNCHANGED <<items, nextItemId>>
          /\ IF body.title = Missing /\ srvReq.id \in items
               THEN Write(500, JsonHeaders, Plain([error |-> "Failed to update item"]))
               ELSE Write(200, JsonHeaders, Plain([success |-> TRUE]))

\* the callback of fs.readFile in serveStaticFile, up to the call of zlib
ReadFileCallback ==
  /\ srvPc = "readFile"
  /\ UNCHANGED <<srvReq, items, nextItemId, nonsrvvars>>
  /\ IF srvReq.path \notin DOMAIN Files
       THEN /\ Write(404, ("Content-Type" :> "text/plain"), Plain("404 Not Found"))
            /\ srvPc' = "done"
            /\ UNCHANGED srvLoc
       ELSE LET ext == Files[srvReq.path]
                encoding == ChosenEncoding(srvReq.acceptEncoding)
                shouldCompress ==
                  /\ ext \in {".html", ".css", ".js", ".mjs", ".json", ".svg"}
                  /\ encoding # "identity"
            IN IF shouldCompress
                 THEN /\ srvLoc' = [by |-> "serveStaticFile", data |-> Plain(srvReq.path),
                                    encoding |-> encoding,
                                    headers |-> ("Content-Encoding" :> encoding) @@
                                                StaticHeaders(ext)]
                      /\ srvPc' = "compress"
                      /\ UNCHANGED srvRes
                 ELSE /\ Write(200, StaticHeaders(ext), Plain(srvReq.path))
                      /\ srvPc' = "done"
                      /\ UNCHANGED srvLoc

\* the callback of zlib.brotliCompress / zlib.gzip, err telling whether the
\* compression failed: serveStaticFile writes its headers object in both
\* branches, the page renderer a fresh one in the error branch
CompressCallback(err) ==
  /\ srvPc = "compress"
  /\ srvPc' = "done"
  /\ UNCHANGED <<srvReq, srvLoc, items, nextItemId, nonsrvvars>>
  /\ IF ~err
       THEN Write(200, srvLoc.headers, Compressed(srvLoc.encoding, srvLoc.data))
     ELSE IF srvLoc.by = "serveStaticFile"
       THEN Write(200, srvLoc.headers, srvLoc.data)
     ELSE Write(200, ("Content-Type" :> "text/html"), srvLoc.data)

ServerNext ==
  \/ \E method \in Methods, path \in Paths, acceptEncoding \in AcceptEncodings,
        id \in 0..MaxItems : Listener(method, path, acceptEncoding, id)
  \/ \E body \in ItemBodies : BodyEnd(body)
  \/ ReadFileCallback
  \/ \E err \in BOOLEAN : CompressCallback(err)

\* the handlers, each storage statement of which may throw
StorageFailureNext ==
  \/ \E w \in Workers, body \in RegisterBodies : RegisterBegin(w, body)
  \/ \E w \in Workers, salt \in Salts : RegisterInsert(w, salt)
  \/ \E w \in Workers : RegisterFinish(w)
  \/ \E w \in Workers, body \in LoginBodies : LoginBegin(w, body)
  \/ \E w \in Workers : LoginFinish(w)
  \/ \E w \in Workers, cookies \in CookieMaps : Logout(w, cookies)
  \/ \E w \in Workers, cookies \in CookieMaps : Me(w, cookies)
  \/ \E w \in Workers : RegisterSessionFails(w)
  \/ \E w \in Workers : LoginSessionFails(w)
  \/ \E w \in Workers, cookies \in CookieMaps : LogoutFails(w, cookies)
  \/ \E w \in Workers, cookies \in CookieMaps : MeFails(w, cookies)

Next ==
  \/ \E w \in Workers, body \in RegisterBodies : RegisterBegin(w, body)
  \/ \E w \in Workers, salt \in Salts : RegisterInsert(w, salt)
  \/ \E w \in Workers : RegisterFinish(w)
  \/ \E w \in Workers, body \in LoginBodies : LoginBegin(w, body)
  \/ \E w \in Workers : LoginFinish(w)
  \/ \E w \in Workers, cookies \in CookieMaps : Logout(w, cookies)
  \/ \E w \in Workers, cookies \in CookieMaps : Me(w, cookies)
  \/ \E id \in 1..MaxUsers, active \in {0, 1} : UpdateUser(id, [is_active |-> active])
  \/ \E id \in 1..MaxUsers : DeleteAllUserSessions(id)
  \/ CleanupExpiredSessions
  \/ Tick

\* a body that passes JSON.parse and the field validation
\* verifyPassword returned true
Verifies(password, storedHash) ==
  VerifyPassword(password, storedHash) = Returns(TRUE)
Complete(body) == body.json /\ body.email # Missing /\ body.password # Missing
Registered(email) == \E u \in users : u.email = email
RowOfEmail(email) == CHOOSE u \in users : u.email = email
\* this step wrote a response to a request of kind op from handler position at;
\* at = "idle" is the handler's first step, which reads the tables as they are
\* before the step
Answered(op, at) == out' # out /\ out'.req.op = op /\ out'.at = at

\* C4: a login with a registered email and a wrong password, and a login with
\* an unregistered email, are answered with the same response (401,
\* {error: 'Invalid credentials'}, no Set-Cookie) and change nothing in the
\* users and sessions tables (no session row, last_login untouched).
C4_LoginFailuresIndistinguishable ==
  [][(/\ Answered("login", "idle")
      /\ Complete(out'.req.body)
      /\ \/ ~Registered(out'.req.body.email)
         \/ ~Verifies(out'.req.body.password,
                            RowOfEmail(out'.req.body.email).password_hash))
     => /\ out'.status = 401
        /\ out'.body = [error |-> "Invalid credentials"]
        /\ out'.setCookie = NoCookie
        /\ UNCHANGED <<users, sessions>>]_vars

\* C4 witness: a 401 login response for a registered email with a wrong
\* password, while the other email is not registered
C4_Witness ==
  /\ out.req.op = "login" /\ out.status = 401
  /\ Registered(out.req.body.email)
  /\ ~Verifies(out.req.body.password, RowOfEmail(out.req.body.email).password_hash)
  /\ \E e \in Emails : ~Registered(e)

\* C6 (as claimed): a register request whose INSERT is refused by the UNIQUE
\* constraint, after it passed the pre-check, is answered 400 'Email already
\* registered'.
C6_RaceLoserGetsEmailTaken ==
  (out.req.op = "register" /\ out.at = "reg_insert")
    => (out.status = 400 /\ out.body = [error |-> "Email already registered"])

\* C8: a register request for an email that has a user row when the request is
\* checked never gets past the check: it is answered 400 'Email already
\* registered' without a cookie, and leaves the users and sessions tables as
\* they were, so every session that validated before still validates to the
\* same user.
C8_DuplicateRegisterRejected ==
  [][/\ \A w \in Workers :
         (pc[w] = "idle" /\ pc'[w] = "reg_insert") => ~Registered(req'[w].body.email)
     /\ (/\ Answered("register", "idle")
         /\ Complete(out'.req.body)
         /\ Registered(out'.req.body.email))
        => (/\ out'.status = 400
            /\ out'.body = [error |-> "Email already registered"]
            /\ out'.setCookie = NoCookie
            /\ UNCHANGED <<users, sessions>>
            /\ \A t \in Tokens : (ValidateSession(t))' = ValidateSession(t))]_vars

\* C8 witness: a register request was rejected as a duplicate while a session
\* of the registered user validates
C8_Witness ==
  /\ out.req.op = "register" /\ out.status = 400
  /\ out.body = [error |-> "Email already registered"]
  /\ \E s \in sessions :
       /\ ValidateSession(s.token) # Undefined
       /\ ValidateSession(s.token).email = out.req.body.email

\* C9: in a register request the user row exists before the session row is
\* inserted (no session is ever issued to a user id without a row); its 200
\* response carries the user read back under the submitted email, who is the
\* user this request created, and a Set-Cookie header for
\* session_token whose value is the token issued to that user: the token
\* validates to that user and to nobody else (it validates whenever it is
\* unrevoked, unexpired and the user is active).
C9_RegisterSuccess ==
  /\ \A w \in Workers :
       pc[w] = "reg_session"
         => /\ \E u \in users : u.id = loc[w].userId /\ u.email = req[w].body.email
            /\ loc[w].token = ""
  /\ \A t \in IssuedTokens : \E u \in users : u.id = issued[t].user_id
  /\ (out.req.op = "register" /\ out.status = 200)
       => /\ out.body.user.email = out.req.body.email
          /\ out.body.user.id = out.loc.userId
          /\ out.setCookie.name = "session_token"
          /\ out.setCookie.value = out.loc.token
          /\ out.loc.token \in IssuedTokens
          /\ ValidateSession(out.loc.token) \in {Undefined, GetUserById(out.loc.userId)}
          /\ (/\ out.loc.token \notin revoked
              /\ now < issued[out.loc.token].at + 86400000
              /\ IsActiveUser(out.loc.userId))
               => ValidateSession(out.loc.token) # Undefined

\* C9 witness: a 200 register response whose cookie validates to the new user
C9_Witness ==
  /\ out.req.op = "register" /\ out.status = 200
  /\ ValidateSession(out.setCookie.value) # Undefined
  /\ ValidateSession(out.setCookie.value).email = out.req.body.email

\* C10: a login with the right password for a user whose is_active is 0 is
\* answered 403 'Account is inactive' without a cookie and changes nothing in
\* the users and sessions tables; with a wrong password for that user the
\* answer is 401.
C10_InactiveLogin ==
  [][(/\ Answered("login", "idle")
      /\ Complete(out'.req.body)
      /\ Registered(out'.req.body.email)
      /\ RowOfEmail(out'.req.body.email).is_active = 0)
     => IF Verifies(out'.req.body.password,
                          RowOfEmail(out'.req.body.email).password_hash)
          THEN /\ out'.status = 403
               /\ out'.body = [error |-> "Account is inactive"]
               /\ out'.setCookie = NoCookie
               /\ UNCHANGED <<users, sessions>>
          ELSE /\ out'.status = 401
               /\ UNCHANGED <<users, sessions>>]_vars

\* C10 witness: a 403 login response for an inactive user
C10_Witness ==
  /\ out.req.op = "login" /\ out.status = 403
  /\ Registered(out.req.body.email)
  /\ RowOfEmail(out.req.body.email).is_active = 0
  /\ RowOfEmail(out.req.body.email).last_login = NullTime

\* the token a request's Cookie header carries, "" when it carries none
CookieToken(request) ==
  IF "session_token" \in DOMAIN request.cookies THEN request.cookies.session_token ELSE ""

\* C11: POST /api/auth/logout is answered 200 {success: true} with a Set-Cookie
\* that empties session_token with Max-Age=0, whatever cookie the request
\* carries (none, a token without a row, a live token); the row of the token,
\* if any, is deleted and nothing else changes, so that the same request again
\* finds nothing to delete and gets the same answer.
C11_LogoutAlwaysSucceeds ==
  [][Answered("logout", "idle")
     => /\ out'.status = 200
        /\ out'.body = [success |-> TRUE]
        /\ out'.setCookie.name = "session_token"
        /\ out'.setCookie.value = ""
        /\ out'.setCookie.maxAge = 0
        /\ UNCHANGED users
        /\ sessions' = {s \in sessions : s.token # CookieToken(out'.req)}
        /\ {s \in sessions' : s.token # CookieToken(out'.req)} = sessions']_vars

\* C11 witness: a logout with a live token was answered 200 and the row is gone
C11_Witness ==
  /\ out.req.op = "logout" /\ out.status = 200
  /\ CookieToken(out.req) \in revoked
  /\ ~HasRow(CookieToken(out.req))
  /\ out.setCookie.maxAge = 0

\* C12: GET /api/auth/me is answered 200 with the user exactly when the
\* request's session_token cookie names a session row that is unexpired and
\* whose owner exists and is active; otherwise (no cookie, empty value, no
\* row, expired row, inactive owner) the answer is 401 'Not authenticated'.
C12_MeExactlyWhenValid ==
  [][Answered("me", "idle")
     => IF \E s \in sessions :
             /\ CookieToken(out'.req) # ""
             /\ s.token = CookieToken(out'.req)
             /\ s.expires_at > now
             /\ \E u \in users : u.id = s.user_id /\ u.is_active = 1
          THEN /\ out'.status = 200
               /\ \E s \in sessions, u \in users :
                    /\ s.token = CookieToken(out'.req)
                    /\ u.id = s.user_id
                    /\ out'.body = [f \in DOMAIN u \ {"password_hash"} |-> u[f]]
          ELSE /\ out'.status = 401
               /\ out'.body = [error |-> "Not authenticated"]]_vars

\* C12 witness: a 200 answer of GET /api/auth/me carrying the owner of the token
C12_Witness ==
  /\ out.req.op = "me" /\ out.status = 200
  /\ CookieToken(out.req) \in IssuedTokens
  /\ out.body.id = issued[CookieToken(out.req)].user_id

\* C13 (as claimed): whenever a storage statement throws while a request is
\* handled, the request is answered with status 500.
C13_StorageFailureIs500 ==
  (out.req.op # "none" /\ out.loc.error \in {"SqliteError", "SQLITE_CONSTRAINT"})
    => out.status = 500

\* C14: a register or login request whose body is not JSON, or lacks email or
\* password, is answered 400 without a cookie, leaves the users and sessions
\* tables as they were, and never reaches the handler's later steps.
C14_ValidationRejects ==
  [][/\ \A w \in Workers :
         (pc[w] = "idle" /\ pc'[w] # "idle") => Complete(req'[w].body)
     /\ ((Answered("register", "idle") \/ Answered("login", "idle"))
            /\ ~Complete(out'.req.body))
        => (/\ out'.status = 400
            /\ out'.setCookie = NoCookie
            /\ UNCHANGED <<users, sessions>>)]_vars

\* C14 witness: a login for a registered email without a password was answered 400
C14_Witness ==
  /\ out.req.op = "login" /\ out.status = 400
  /\ out.req.body.json /\ out.req.body.password = Missing
  /\ Registered(out.req.body.email)

\* C15 (as claimed): after cleanupExpiredSessions has run at time now, no
\* session row with expires_at <= now is left.
C15_SweepLeavesNoExpiredRow ==
  [][CleanupExpiredSessions => \A s \in sessions' : s.expires_at > now]_vars

\* C16: cleanupExpiredSessions, wherever it falls among the statements of the
\* other workers, keeps every row whose expires_at is later than now; every
\* token that validates before it validates to the same user after it; and
\* a second sweep at the same time would delete nothing.
C16_SweepKeepsLiveSessions ==
  [][CleanupExpiredSessions
     => /\ \A s \in sessions : s.expires_at > now => s \in sessions'
        /\ sessions' \subseteq sessions
        /\ \A t \in Tokens :
             ValidateSession(t) # Undefined => (ValidateSession(t))' = ValidateSession(t)
        /\ {s \in sessions' : ~(s.expires_at < now')} = sessions']_vars

\* C16 witness: one token's row was swept (it is gone without having been
\* revoked) while another token validates
C16_Witness ==
  /\ \E t \in IssuedTokens \ revoked : ~HasRow(t)
  /\ \E t \in IssuedTokens : ValidateSession(t) # Undefined

\* C17: GET /api/auth/me (getSessionToken + validateSession, which is what
\* getCurrentUser does) leaves the users and sessions tables unchanged, whether
\* it answers 200 or 401; in particular no expires_at is extended.
C17_ValidationDoesNotWrite ==
  [][Answered("me", "idle")
     => /\ UNCHANGED <<users, sessions>>
        /\ \A s \in sessions : \E s2 \in sessions' :
             s2.token = s.token /\ s2.expires_at = s.expires_at
        /\ out'.status = 200 => out'.body = GetCurrentUser(out'.req.cookies)]_vars

\* C17 witness: a 200 answer of GET /api/auth/me, the row of its token still
\* expiring 24 hours after it was issued
C17_Witness ==
  /\ out.req.op = "me" /\ out.status = 200
  /\ \E s \in sessions :
       /\ s.token = CookieToken(out.req)
       /\ s.expires_at = issued[s.token].at + 86400000

\* C18: deleteAllUserSessions(u) leaves no row of user u and keeps every row
\* of the other users as it is; deleteSession(t), as run by logout, removes
\* exactly the row with token t and changes nothing when there is none.
C18_DeletesOnlyTheirRows ==
  [][/\ \A id \in 1..MaxUsers :
         DeleteAllUserSessions(id)
           => /\ \A s \in sessions' : s.user_id # id
              /\ \A s \in sessions : s.user_id # id => s \in sessions'
              /\ sessions' \subseteq sessions
     /\ Answered("logout", "idle")
           => /\ sessions' = sessions \ {s \in sessions : s.token = CookieToken(out'.req)}
              /\ ~HasRow(CookieToken(out'.req)) => sessions' = sessions]_vars

\* C18 witness: a user's token was revoked and its row is gone while a row of
\* another user is still there
C18_Witness ==
  /\ out.req.op # "logout"
  /\ \E t \in revoked :
       /\ ~HasRow(t)
       /\ \E s \in sessions : s.user_id # issued[t].user_id

\* a stored string of the form salt:digest, digest being 2 * KeyLen hex digits
WellFormedHash(storedHash) ==
  LET parts == Split(storedHash, ":")
  IN /\ Len(parts) = 2
     /\ Len(parts[2]) = 2 * KeyLen
     /\ \A i \in 1..Len(parts[2]) : IsHexDigit(parts[2][i])

\* C19: for every password p and every string hashPassword returned for a
\* password p2, verifyPassword(p, string) returns true when p = p2 and false
\* when p # p2; two strings hashPassword returned for the same password with
\* different salts are different, and both verify against that password.
C19_HashVerifyRoundTrip ==
  /\ \A r \in pwStored, p \in LoginPasswords :
       VerifyPassword(p, r.hash) = Returns(p = r.password)
  /\ \A r1, r2 \in pwStored :
       (r1.password = r2.password /\ r1.salt # r2.salt) => r1.hash # r2.hash
  /\ (pwCall.fn = "verifyPassword" /\ WellFormedHash(pwCall.storedHash))
       => \E r \in pwStored :
            /\ r.hash = pwCall.storedHash
            /\ pwCall.result = Returns(pwCall.password = r.password)

\* C19 witness: verifyPassword returned true for a password that was hashed
\* twice, with two salts
C19_Witness ==
  /\ pwCall.fn = "verifyPassword" /\ pwCall.result = Returns(TRUE)
  /\ \E r1, r2 \in pwStored :
       /\ r1.password = pwCall.password /\ r2.password = pwCall.password
       /\ r1.salt # r2.salt
       /\ r1.hash = pwCall.storedHash

\* C20 (as claimed): verifyPassword returns false, and does not throw, when the
\* stored string is malformed (no ':', a digest that is not hex, a digest of
\* the wrong length), and a login against such a row is answered as a failed
\* verification.
C20_MalformedHashReturnsFalse ==
  /\ (pwCall.fn = "verifyPassword" /\ ~WellFormedHash(pwCall.storedHash))
       => pwCall.result = Returns(FALSE)
  /\ (pwCall.fn = "login" /\ ~WellFormedHash(pwCall.storedHash))
       => pwCall.result = [status |-> 401, body |-> [error |-> "Invalid credentials"]]

\* C27 (as claimed): a register request answered with an error status created
\* no user row, also when createSession fails after createUser has inserted
\* the row.
C27_RegisterErrorLeavesNoRow ==
  (out.req.op = "register" /\ out.status # 200)
    => ~\E u \in users : u.id = out.loc.userId

\* C28: a successful login inserts exactly one session row, for the user that
\* logged in and with the token of its cookie, and changes no other row; every
\* token that validated before it validates to the same user after it, so one
\* user holds as many valid sessions at once as were issued.
C28_LoginAddsOneSession ==
  [][(Answered("login", "login_session") /\ out'.status = 200)
     => /\ \E s \in sessions' \ sessions :
             /\ sessions' = sessions \cup {s}
             /\ s.user_id = out'.body.user.id
             /\ s.token = out'.setCookie.value
             /\ \A s2 \in sessions : s2.token # s.token
        /\ \A t \in Tokens :
             ValidateSession(t) # Undefined
               => /\ (ValidateSession(t))' # Undefined
                  /\ (ValidateSession(t))'.id = ValidateSession(t).id]_vars

\* C28 witness: after a 200 login every token issued (by the registration and
\* by the login) validates to the one user that logged in
C28_Witness ==
  /\ out.req.op = "login" /\ out.status = 200
  /\ Cardinality(IssuedTokens) = MaxTokens
  /\ \A t \in IssuedTokens :
       /\ ValidateSession(t) # Undefined
       /\ ValidateSession(t).id = out.body.user.id

\* a step changed the is_active flag of user id
IsActiveFlipped(id) ==
  \E u \in users, u2 \in users' : u.id = id /\ u2.id = id /\ u.is_active # u2.is_active

\* C29: a step that changes a user's is_active flag leaves the sessions table
\* as it is; after the flag is set to 0 none of the user's unexpired tokens
\* validates, and after it is set back to 1 each of them validates to that
\* user again.
C29_DeactivationKeepsSessions ==
  [][\A id \in 1..MaxUsers :
       IsActiveFlipped(id)
         => /\ sessions' = sessions
            /\ \A s \in sessions :
                 (s.user_id = id /\ s.expires_at > now)
                   => IF (IsActiveUser(id))'
                        THEN /\ ValidateSession(s.token) = Undefined
                             /\ (ValidateSession(s.token))' # Undefined
                             /\ (ValidateSession(s.token))'.id = id
                        ELSE /\ ValidateSession(s.token) # Undefined
                             /\ (ValidateSession(s.token))' = Undefined]_vars

\* C29 witness: the last response is a 403 to a login of a deactivated user
\* (every session row is older than it, since inserting one writes a response),
\* and a token of that user validates now
C29_Witness ==
  /\ out.req.op = "login" /\ out.status = 403
  /\ \E s \in sessions :
       /\ s.user_id = RowOfEmail(out.req.body.email).id
       /\ ValidateSession(s.token) # Undefined

\* a segment's text before its first '=' (all of it when it has none) and
\* after it, both trimmed
FirstEq(seg) ==
  IF \E i \in 1..Len(seg) : seg[i] = "="
    THEN CHOOSE i \in 1..Len(seg) : seg[i] = "=" /\ \A j \in 1..(i - 1) : seg[j] # "="
    ELSE 0
PairName(seg) == Trim(IF FirstEq(seg) = 0 THEN seg ELSE SubSeq(seg, 1, FirstEq(seg) - 1))
PairValue(seg) == Trim(IF FirstEq(seg) = 0 THEN <<>> ELSE SubSeq(seg, FirstEq(seg) + 1, Len(seg)))
\* the segments of a Cookie header, none when the header is absent
SegmentsOf(cookieHeader) ==
  IF cookieHeader = Undefined THEN <<>> ELSE Split(cookieHeader.str, ";")
\* the segments named session_token
SessionSegments(cookieHeader) ==
  {i \in 1..Len(SegmentsOf(cookieHeader)) : PairName(SegmentsOf(cookieHeader)[i]) = CookieNameChars}

C22_CookieAlwaysHttpOnly ==
  fnCall.fn = "setSessionCookie" =>
    /\ fnCall.result[1] = [n |-> "session_token", v |-> fnCall.token]
    /\ \E i \in 1..Len(fnCall.result) : fnCall.result[i].n = "HttpOnly"
    /\ fnCall.options = <<>> =>
         /\ fnCall.result[2] = [n |-> "Max-Age", v |-> 86400]
         /\ fnCall.result[3] = [n |-> "Path", v |-> "/"]
         /\ fnCall.result[4] = [n |-> "SameSite", v |-> "Lax"]

\* C23 (as claimed): verifySignedToken returns the payload for a token that
\* createSignedToken made with the same secret, and returns null for a token
\* whose encoded payload or signature was altered, that was signed with another
\* secret, or that has no '.'.
C23_SignedTokenRoundTrip ==
  fnCall.fn = "verifySignedToken" =>
    fnCall.result =
      Returns(IF fnCall.how = "none" /\ fnCall.secret = fnCall.signedWith
                THEN fnCall.payload ELSE Null)

\* C24: the primary forks numCPUs workers at its start and one worker, no more
\* and no fewer, each time the 'exit' listener runs, and forks at no other
\* time; while the primary runs, the live workers and the 'exit' events not
\* yet handled add up to numCPUs; and whenever fewer than numCPUs workers are
\* live, the number returns to numCPUs (or the primary has left).
C24_WorkersRestored ==
  /\ [][/\ (primary = "starting" /\ primary' = "running")
             => Cardinality(workers') = NumCPUs
        /\ (primary = "running" /\ primary' = "running" /\ exitEvents' < exitEvents)
             => /\ exitEvents' = exitEvents - 1
                /\ workers \subseteq workers'
                /\ Cardinality(workers' \ workers) = 1
        /\ workers' \ workers # {}
             => (primary = "starting" \/ exitEvents' = exitEvents - 1)]_vars
  /\ [](primary = "running" => Cardinality(workers) + exitEvents = NumCPUs)
  /\ (primary = "running" /\ Cardinality(workers) < NumCPUs)
       ~> (Cardinality(workers) = NumCPUs \/ primary = "exited")

\* C24 witness: every worker of the first generation has ended and numCPUs
\* replacements are live, no signal having been received
C24_Witness ==
  /\ primary = "running" /\ ~signalled
  /\ Cardinality(workers) = NumCPUs /\ exitEvents = 0
  /\ \A w \in workers : w > NumCPUs

\* C25 (as claimed): once SIGTERM or SIGINT has been handled the primary forks
\* no worker, so the set of live workers only shrinks and, once empty, stays
\* empty.
C25_NoForkAfterSignal ==
  [][signalled => workers' \subseteq workers]_vars

\* C26 (as claimed): once the listener and every callback of a request have
\* run, exactly one response has been written to it, whatever its method and
\* path are.
C26_EveryRequestAnswered ==
  srvPc = "done" => Len(srvRes) = 1

\* C30 (as claimed): a response of serveStaticFile or of the page renderer
\* that has a Content-Encoding header has its body compressed with that
\* encoding, and a body sent uncompressed (compression refused or failed)
\* comes without the header.
C30_EncodingHeaderMatchesBody ==
  \A i \in 1..Len(srvRes) :
    srvReq.path \in StaticPaths \cup RoutePaths =>
      IF "Content-Encoding" \in DOMAIN srvRes[i].headers
        THEN srvRes[i].body.encoding = srvRes[i].headers["Content-Encoding"]
        ELSE srvRes[i].body.encoding = "identity"

Spec == Init /\ [][Next]_vars
SpecPassword == Init /\ [][PasswordNext]_vars
SpecStorageFailure == Init /\ [][StorageFailureNext]_vars
SpecCookie == Init /\ [][CookieNext]_vars
SpecSetCookie == Init /\ [][SetCookieNext]_vars
SpecSignedToken == Init /\ [][SignedTokenNext]_vars
SpecServer == Init /\ [][ServerNext]_vars
\* the event loop of the primary runs every listener and timer that is due
SpecCluster ==
  /\ Init /\ [][ClusterNext]_vars
  /\ WF_vars(StartPrimary) /\ WF_vars(OnExit) /\ WF_vars(ForcedExit)
====
